---- MODULE Spec2Model ----
(***************************************************************************)
(* A model of the jitsi-meet-logger LogCollector (lib/LogCollector.ts):    *)
(* the transport that formats, aggregates and batches log lines and hands  *)
(* the batches to a log storage, either when the size limit is reached or  *)
(* when the "store logs" timeout fires; and of the loggers, their levels   *)
(* and the registry of loggers (src/Logger.ts, src/index.ts).              *)
(*                                                                         *)
(* JavaScript values are records [t |-> type, v |-> text]; text is a TLA+  *)
(* string.  The collector's fields, the window's pending timeouts and the  *)
(* storage are gathered in one record on which the methods are operators,  *)
(* so that a method which calls another is the composition of the two.     *)
(***************************************************************************)
EXTENDS Integers, Sequences, FiniteSets, TLC

VARIABLES
    queue,                  \* LogCollector.queue
    totalLen,               \* LogCollector.totalLen
    outputCache,            \* LogCollector.outputCache
    storeLogsIntervalID,    \* LogCollector.storeLogsIntervalID, 0 for null
    stringifyObjects,       \* LogCollector.stringifyObjects (set once)
    timers,                 \* ids of the window's pending timeouts
    ready,                  \* what logStorage.isReady() answers now
    fault,                  \* the method of logStorage that raises at its next call
    stored,                 \* the batches passed to logStorage.storeLogs, in order
    accepted,               \* number of submissions the aggregation took in
    phase,                  \* what start() and stop() made of the collector
    curLevel,               \* index.ts: curLevel
    loggers,                \* index.ts: loggers
    idLoggers,              \* index.ts: idLoggers
    created,                \* the Logger objects made so far, in order
    globalTransports,       \* Logger._globalTransports
    globalOptions,          \* Logger._globalOptions
    live,                   \* the batches passed on that are the array this.queue is
    last                    \* what the last operation was and what it did

\* the variables of index.ts and Logger.ts
registryVars == <<curLevel, loggers, idLoggers, created, globalTransports,
                  globalOptions>>

\* the variables of the collector, the window and the storage
collectorVars == <<queue, totalLen, outputCache, storeLogsIntervalID,
                   stringifyObjects, timers, ready, fault, stored, accepted, phase,
                   live>>

vars == <<collectorVars, registryVars, last>>

----------------------------------------------------------------------------
(* Bounds of the model *)

\* options.maxEntryLength given to the constructor
maxEntryLength == 5

\* how many submissions the aggregation takes in during one run
MaxSubmits == 3

\* the same, where the timer is followed until it has fired
MaxQueued == 2

\* how many loggers are created during one run
MaxLoggers == 2

\* the same, where every level and kind of argument is submitted
MaxFormatted == 2

\* Bound: how deep the calls nested in one storeLogs call are followed
MaxNesting == 2

----------------------------------------------------------------------------
(* JavaScript values *)

Undefined == [t |-> "undefined", v |-> ""]
Null == [t |-> "null", v |-> ""]
Str(s) == [t |-> "string", v |-> s]
\* an object {} : v is its JSON text
Obj == [t |-> "object", v |-> "{}"]

\* typeof arg === 'object'
TypeofObject(arg) == arg.t \in {"object", "null"}

\* true and false
Bool(b) == [t |-> "boolean", v |-> IF b THEN "true" ELSE "false"]

\* the condition of if ( x )
Truthy(x) ==
    CASE x.t = "string" -> x.v # ""
      [] x.t = "object" -> TRUE
      [] x.t = "boolean" -> x.v = "true"
      [] OTHER -> FALSE

\* String(x) as Array.prototype.join applies it to an element
ElementText(x) ==
    CASE x.t = "string" -> x.v
      [] x.t = "object" -> "[object Object]"
      [] OTHER -> ""

RECURSIVE join(_, _)
join(parts, sep) ==
    IF Len(parts) = 0 THEN ""
    ELSE IF Len(parts) = 1 THEN ElementText(parts[1])
    ELSE ElementText(parts[1]) \o sep \o join(Tail(parts), sep)

----------------------------------------------------------------------------
(* Logger.levels and the collector's per-level methods *)

LevelKeys == {"TRACE", "DEBUG", "INFO", "LOG", "WARN", "ERROR"}

LevelConstants ==
    [k \in LevelKeys |->
        CASE k = "TRACE" -> "trace"
          [] k = "DEBUG" -> "debug"
          [] k = "INFO" -> "info"
          [] k = "LOG" -> "log"
          [] k = "WARN" -> "warn"
          [] k = "ERROR" -> "error"]

MethodNames == {LevelConstants[k] : k \in LevelKeys}

\* the logLevel the constructor binds as first argument of this[ methodName ]
BoundLogLevel(methodName) ==
    CHOOSE k \in LevelKeys : LevelConstants[k] = methodName

----------------------------------------------------------------------------
(* Formatting *)

\* JSON.stringify guarded by try/catch
stringify(someObject) ==
    IF someObject.t = "null" THEN "null" ELSE someObject.v

processArg(stringifyOpt, logLevel, arg) ==
    IF (stringifyOpt \/ logLevel = LevelConstants["ERROR"]) /\ TypeofObject(arg)
    THEN Str(stringify(arg))
    ELSE arg

\* formatLogMessage leaving the timestamp out of the text
formatLogMessage_NoTimestamp(stringifyOpt, logLevel, timestamp, args) ==
    LET parts == [i \in 1..Len(args) |-> processArg(stringifyOpt, logLevel, args[i])]
    IN IF Len(parts) # 0 THEN Str(join(parts, ",")) ELSE Null

\* returns Str(text) or Null
formatLogMessage(stringifyOpt, logLevel, timestamp, args) ==
    LET parts ==
            (IF Truthy(timestamp)
             THEN <<processArg(stringifyOpt, logLevel, timestamp)>>
             ELSE <<>>)
            \o [i \in 1..Len(args) |-> processArg(stringifyOpt, logLevel, args[i])]
    IN IF Len(parts) # 0 THEN Str(join(parts, ",")) ELSE Null

----------------------------------------------------------------------------
(* The collector.  c is the record of the collector's fields (queue,      *)
(* totalLen, outputCache, storeLogsIntervalID), the window's pending       *)
(* timeouts (timers), the storage (ready, stored), and what the running    *)
(* operation did so far (accepted, taken, flushes, answers), raised being   *)
(* TRUE once a call to the storage raised: nothing catches it, so the rest  *)
(* of the operation is skipped and the caller of the operation gets it.     *)

\* SameAsPrevious looking for the text anywhere in the queue
SameAsPrevious_AnyEntry(q, text) ==
    \E i \in 1..Len(q) : q[i].text = text

\* const prevMessageText = prevMessage && prevMessage.text;
\* prevMessageText === msg
SameAsPrevious(q, text) ==
    Len(q) > 0 /\ q[Len(q)].text = text

\* Aggregate with the length added at every occurrence of a repeated message
Aggregate_LengthPerOccurrence(c, text, timestamp) ==
    LET n == c.accepted + 1
    IN IF SameAsPrevious(c.queue, text)
       THEN [c EXCEPT !.queue[Len(c.queue)].count = @ + 1,
                      !.queue[Len(c.queue)].ids = @ \cup {n},
                      !.totalLen = @ + Len(text),
                      !.accepted = n, !.taken = TRUE]
       ELSE [c EXCEPT !.queue = Append(@, [text |-> text, timestamp |-> timestamp,
                                           count |-> 1, ids |-> {n}]),
                      !.totalLen = @ + Len(text),
                      !.accepted = n, !.taken = TRUE]

\* Aggregate pushing a new entry for every message
Aggregate_AlwaysPush(c, text, timestamp) ==
    LET n == c.accepted + 1
    IN [c EXCEPT !.queue = Append(@, [text |-> text, timestamp |-> timestamp,
                                      count |-> 1, ids |-> {n}]),
                 !.totalLen = @ + Len(text),
                 !.accepted = n, !.taken = TRUE]

\* the aggregation of an accepted message: count it on the last entry or
\* push a new entry
Aggregate(c, text, timestamp) ==
    LET n == c.accepted + 1
    IN IF SameAsPrevious(c.queue, text)
       THEN [c EXCEPT !.queue[Len(c.queue)].count = @ + 1,
                      !.queue[Len(c.queue)].ids = @ \cup {n},
                      !.accepted = n, !.taken = TRUE]
       ELSE [c EXCEPT !.queue = Append(@, [text |-> text, timestamp |-> timestamp,
                                           count |-> 1, ids |-> {n}]),
                      !.totalLen = @ + Len(text),
                      !.accepted = n, !.taken = TRUE]

\* SizeLimitReached only once the limit is exceeded
SizeLimitReached_Exceeded(c) == c.totalLen > maxEntryLength

\* this.totalLen >= this.maxEntryLength
SizeLimitReached(c) == c.totalLen >= maxEntryLength

\* window.setTimeout's return value: an id no pending timeout has (the least
\* one: the collector only ever compares an id with null)
NewTimerId(pending) ==
    CHOOSE i \in 1..(Cardinality(pending) + 1) :
        /\ i \notin pending
        /\ \A j \in 1..(i - 1) : j \in pending

\* window.clearTimeout( this.storeLogsIntervalID ); this.storeLogsIntervalID = null
ClearStoreLogsInterval(c) ==
    IF c.storeLogsIntervalID # 0
    THEN [c EXCEPT !.timers = @ \ {c.storeLogsIntervalID},
                   !.storeLogsIntervalID = 0]
    ELSE c

\* _reschedulePublishInterval without the clearTimeout of the pending timeout
_reschedulePublishInterval_NoClear(c) ==
    LET id == NewTimerId(c.timers)
    IN [c EXCEPT !.timers = @ \cup {id}, !.storeLogsIntervalID = id]

_reschedulePublishInterval(c) ==
    LET c1 == ClearStoreLogsInterval(c)
        id == NewTimerId(c1.timers)
    IN [c1 EXCEPT !.timers = @ \cup {id}, !.storeLogsIntervalID = id]

\* SendBatches storing the current batch before the cached ones
SendBatches_QueueFirst(c) ==
    IF c.fault = "storeLogs"
    THEN [c EXCEPT !.stored = Append(@, c.queue),
                   !.raised = TRUE, !.fault = "none"]
    ELSE [c EXCEPT !.stored = @ \o <<c.queue>> \o c.outputCache,
                   !.outputCache = <<>>]

\* the storage is ready: every cached batch is stored, then the current one;
\* a storeLogs that raises does so at the first batch passed to it
SendBatches(c) ==
    IF c.fault = "storeLogs"
    THEN [c EXCEPT !.stored = Append(@, (c.outputCache \o <<c.queue>>)[1]),
                   !.raised = TRUE, !.fault = "none"]
    ELSE [c EXCEPT !.stored = @ \o c.outputCache \o <<c.queue>>,
                   !.outputCache = <<>>]

\* CacheBatch keeping only the newest batch
CacheBatch_Replace(c) ==
    [c EXCEPT !.outputCache = <<c.queue>>]

\* the storage is not ready: the current batch is cached
CacheBatch(c) ==
    [c EXCEPT !.outputCache = Append(@, c.queue)]

\* this.queue = []; this.totalLen = 0;
ResetQueue(c) ==
    [c EXCEPT !.queue = <<>>, !.totalLen = 0]

\* PublishNow not asking whether the storage is ready
PublishNow_Unasked(c, r, force) == c.totalLen > 0

\* PublishNow also when only outputCache has something
PublishNow_CacheToo(c, r, force) ==
    (c.totalLen > 0 \/ c.outputCache # <<>>) /\ (r \/ force)

\* this.totalLen > 0 && ( this.logStorage.isReady() || force ), with the answer r
PublishNow(c, r, force) == c.totalLen > 0 /\ (r \/ force)

\* _flush; isReady() answers c.ready at its first call and r2 at its second,
\* or raises at its first call
_flush(c, force, reschedule, r2) ==
    LET r1 == c.ready
        c0 == [c EXCEPT !.flushes = Append(@, [force |-> force,
                                               reschedule |-> reschedule])]
        c1 == IF c0.totalLen > 0
              THEN [c0 EXCEPT !.answers = Append(@, r1)]
              ELSE c0
        c2 == IF PublishNow(c1, r1, force)
              THEN LET c3 == [c1 EXCEPT !.answers = Append(@, r2), !.ready = r2]
                       c4 == IF r2 THEN SendBatches(c3) ELSE CacheBatch(c3)
                   IN IF c4.raised THEN c4 ELSE ResetQueue(c4)
              ELSE c1
    IN IF c0.totalLen > 0 /\ c0.fault = "isReady"
       THEN [c0 EXCEPT !.raised = TRUE, !.fault = "none"]
       ELSE IF reschedule /\ ~c2.raised THEN _reschedulePublishInterval(c2) ELSE c2

\* _log testing msg !== null instead of if ( msg )
_log_NotNull(c, stringifyOpt, logLevel, timestamp, args, r2) ==
    LET msg == formatLogMessage(stringifyOpt, logLevel, timestamp, args)
        c1 == IF msg.t = "string" THEN Aggregate(c, msg.v, timestamp) ELSE c
    IN IF SizeLimitReached(c1) THEN _flush(c1, TRUE, TRUE, r2) ELSE c1

_log(c, stringifyOpt, logLevel, timestamp, args, r2) ==
    LET msg == formatLogMessage(stringifyOpt, logLevel, timestamp, args)
        c1 == IF Truthy(msg) THEN Aggregate(c, msg.v, timestamp) ELSE c
    IN IF SizeLimitReached(c1) THEN _flush(c1, TRUE, TRUE, r2) ELSE c1

start(c) == _reschedulePublishInterval(c)

\* flush forcing its flush
flush_Forced(c, r2) == _flush(c, TRUE, TRUE, r2)

flush(c, r2) == _flush(c, FALSE, TRUE, r2)

\* stop forcing its flush
stop_Forced(c, r2) == _flush(c, TRUE, FALSE, r2)

stop(c, r2) == _flush(c, FALSE, FALSE, r2)

\* TimeoutCallback not rescheduling the next timeout
TimeoutCallback_Once(c, id, r2) ==
    _flush([c EXCEPT !.timers = @ \ {id}], FALSE, FALSE, r2)

\* the callback given to window.setTimeout, run when timeout id fires
TimeoutCallback(c, id, r2) ==
    _flush([c EXCEPT !.timers = @ \ {id}], FALSE, TRUE, r2)

----------------------------------------------------------------------------
(* The loggers and the registry of index.ts.  g is the record of curLevel,  *)
(* loggers, idLoggers and the Logger objects made so far (created); a       *)
(* logger is the index of its object in created.                            *)

\* const levels = { trace: 0, debug: 1, info: 2, log: 3, warn: 4, error: 5 }
levels ==
    [trace |-> 0, debug |-> 1, info |-> 2, log |-> 3, warn |-> 4, error |-> 5]

\* const idLoggers = {}
NoLoggers == [id \in {} |-> <<>>]

\* new Logger( level, id ): this.level = levels[ level ]; by is the function
\* of index.ts that made it
Logger(level, id, by) ==
    [id |-> id, level |-> levels[level], transports |-> <<>>, by |-> by]

\* logger.setLevel( level )
setLevel(g, logger, level) ==
    [g EXCEPT !.created[logger].level = levels[level]]

\* for ( const l of list ) l.setLevel( level )
RECURSIVE setLevels(_, _, _)
setLevels(g, list, level) ==
    IF list = <<>> THEN g
    ELSE setLevels(setLevel(g, Head(list), level), Tail(list), level)

\* idLoggers[ id ] || []
LoggersOf(g, id) ==
    IF id.t = "string" /\ id.v \in DOMAIN g.idLoggers THEN g.idLoggers[id.v] ELSE <<>>

getLogger(g, id) ==
    LET logger == Len(g.created) + 1
        g1 == [g EXCEPT !.created = Append(@, Logger(g.curLevel, id, "getLogger"))]
    IN IF Truthy(id)
       THEN [g1 EXCEPT !.idLoggers = (id.v :> Append(LoggersOf(g, id), logger)) @@ @]
       ELSE [g1 EXCEPT !.loggers = Append(@, logger)]

getUntrackedLogger(g, id) ==
    [g EXCEPT !.created = Append(@, Logger(g.curLevel, id, "getUntrackedLogger"))]

\* setLogLevelById taking every logger without id when the id has no loggers
setLogLevelById_DefaultsToLoggers(g, level, id) ==
    setLevels(g, IF Truthy(id) /\ LoggersOf(g, id) # <<>>
                 THEN LoggersOf(g, id) ELSE g.loggers, level)

setLogLevelById(g, level, id) ==
    setLevels(g, IF Truthy(id) THEN LoggersOf(g, id) ELSE g.loggers, level)

\* every logger of idLoggers, key after key
RECURSIVE LoggersOfKeys(_, _)
LoggersOfKeys(g, keys) ==
    IF keys = {} THEN <<>>
    ELSE LET id == CHOOSE k \in keys : TRUE
         IN g.idLoggers[id] \o LoggersOfKeys(g, keys \ {id})

\* setLogLevel leaving the loggers with an id as they are
setLogLevel_LoggersOnly(g, level) ==
    setLevels([g EXCEPT !.curLevel = level], g.loggers, level)

setLogLevel(g, level) ==
    setLevels([g EXCEPT !.curLevel = level],
              g.loggers \o LoggersOfKeys(g, DOMAIN g.idLoggers), level)

\* __log returning when the level is not above the logger's
__log_AboveOnly(g, transports, logger, level) ==
    IF levels[level] <= g.created[logger].level
    THEN <<>>
    ELSE transports \o g.created[logger].transports

\* Logger.__log: the transports whose method of that level is called, in the
\* order of the calls (every transport here has a method for every level)
__log(g, transports, logger, level) ==
    IF levels[level] < g.created[logger].level
    THEN <<>>
    ELSE transports \o g.created[logger].transports

\* an Options object whose disableCallerInfo is flag; {} has it undefined
OptionsWith(flag) == [t |-> "object", v |-> "{}", disableCallerInfo |-> flag]
EmptyOptions == OptionsWith(Undefined)

\* transports.indexOf( transport ), counted from 0
indexOf(transports, transport) ==
    IF \E i \in 1..Len(transports) : transports[i] = transport
    THEN (CHOOSE i \in 1..Len(transports) :
              /\ transports[i] = transport
              /\ \A j \in 1..(i - 1) : transports[j] # transport) - 1
    ELSE -1

\* transports.splice( transportIdx, 1 )
splice(transports, transportIdx) ==
    SubSeq(transports, 1, transportIdx)
        \o SubSeq(transports, transportIdx + 2, Len(transports))

\* removeGlobalTransport cutting the list at the transport
removeGlobalTransport_Truncates(transports, transport) ==
    IF indexOf(transports, transport) # -1
    THEN SubSeq(transports, 1, indexOf(transports, transport))
    ELSE transports

removeGlobalTransport(transports, transport) ==
    IF indexOf(transports, transport) # -1
    THEN splice(transports, indexOf(transports, transport))
    ELSE transports

\* addGlobalTransport without the test that the transport is not registered
addGlobalTransport_Always(transports, transport) ==
    Append(transports, transport)

addGlobalTransport(transports, transport) ==
    IF indexOf(transports, transport) = -1
    THEN Append(transports, transport)
    ELSE transports

\* setGlobalOptions keeping whatever it is given
setGlobalOptions_AsGiven(options) == options

\* Logger._globalOptions = options || {}
setGlobalOptions(options) ==
    IF Truthy(options) THEN options ELSE EmptyOptions

----------------------------------------------------------------------------
(* The state machine *)

\* what the callers of the collector's methods pass
Timestamps == {Undefined, Str("1")}
ArgLists == {<<>>, <<Str("")>>, <<Str("abcd")>>}
LoggedMethods == {"log", "error"}

\* phase: "idle" before any start() or stop(); "started" and "stopped" after
\* start() and stop(); "stoppedLogged" once a submission was taken in while
\* stopped; "restarted" after a start() that followed such a submission
PhaseAfterLog(ph, taken) ==
    IF ph = "stopped" /\ taken THEN "stoppedLogged" ELSE ph
PhaseAfterStart(ph) ==
    IF ph \in {"stoppedLogged", "restarted"} THEN "restarted" ELSE "started"

NoOp == [op |-> "init", msg |-> Null, taken |-> FALSE,
         flushes |-> <<>>, answers |-> <<>>, nStored |-> 0,
         raised |-> FALSE, call |-> <<>>]

\* the record the methods work on, at the beginning of an operation
Cur ==
    [queue |-> queue, totalLen |-> totalLen, outputCache |-> outputCache,
     storeLogsIntervalID |-> storeLogsIntervalID, timers |-> timers,
     ready |-> ready, fault |-> fault, stored |-> stored, accepted |-> accepted,
     taken |-> FALSE, flushes |-> <<>>, answers |-> <<>>, raised |-> FALSE]

\* the state after an operation that ended with the record c; call is what
\* the operation was called with, where a specification keeps track of it
BecomesAfter(c, op, msg, call) ==
    /\ queue' = c.queue
    /\ totalLen' = c.totalLen
    /\ outputCache' = c.outputCache
    /\ storeLogsIntervalID' = c.storeLogsIntervalID
    /\ timers' = c.timers
    /\ ready' = c.ready
    /\ fault' = c.fault
    /\ stored' = c.stored
    /\ accepted' = c.accepted
    /\ last' = [op |-> op, msg |-> msg, taken |-> c.taken,
                flushes |-> c.flushes, answers |-> c.answers,
                nStored |-> Len(c.stored) - Len(stored),
                raised |-> c.raised, call |-> call]
    /\ UNCHANGED <<stringifyObjects, live>>
    /\ UNCHANGED registryVars

Becomes(c, op, msg) == BecomesAfter(c, op, msg, <<>>)

\* a collector just constructed with options.stringifyObjects out of options
Constructed(options) ==
    /\ queue = <<>>
    /\ totalLen = 0
    /\ outputCache = <<>>
    /\ storeLogsIntervalID = 0
    /\ stringifyObjects \in options
    /\ timers = {}
    /\ ready \in BOOLEAN
    /\ fault = "none"
    /\ stored = <<>>
    /\ accepted = 0
    /\ phase = "idle"
    /\ live = {}
    /\ curLevel = LevelConstants["TRACE"]
    /\ loggers = <<>>
    /\ idLoggers = NoLoggers
    /\ created = <<>>
    /\ globalTransports = <<"console">>
    /\ globalOptions = EmptyOptions
    /\ last = NoOp

Init == Constructed({FALSE})

\* the answers isReady() may give at its second call of one operation
Answers == BOOLEAN

\* a Logger calls the collector's method of one level: one of methodNames,
\* with a timestamp and arguments out of timestamps and argLists, as long as
\* fewer than most submissions were taken in; told says whether the
\* specification keeps track of what the method was called with
LogOf(methodNames, timestamps, argLists, most, told) ==
    \E methodName \in methodNames, timestamp \in timestamps, args \in argLists :
        /\ accepted < most
        /\ LET logLevel == BoundLogLevel(methodName)
           IN \E c \in {_log(Cur, stringifyObjects, logLevel, timestamp, args, r2) :
                            r2 \in Answers} :
                /\ BecomesAfter(c, "log",
                       formatLogMessage(stringifyObjects, logLevel, timestamp, args),
                       IF told THEN <<methodName, timestamp, args>> ELSE <<>>)
                /\ phase' = PhaseAfterLog(phase, c.taken)

Log == LogOf(LoggedMethods, Timestamps, ArgLists, MaxSubmits, FALSE)

Start ==
    /\ Becomes(start(Cur), "start", Null)
    /\ phase' = PhaseAfterStart(phase)

Flush ==
    \E c \in {flush(Cur, r2) : r2 \in Answers} :
        /\ Becomes(c, "flush", Null)
        /\ UNCHANGED phase

Stop ==
    \E c \in {stop(Cur, r2) : r2 \in Answers} :
        /\ Becomes(c, "stop", Null)
        /\ phase' = "stopped"

\* a pending timeout of the window fires
TimerFires ==
    \E id \in timers :
        \E c \in {TimeoutCallback(Cur, id, r2) : r2 \in Answers} :
            /\ Becomes(c, "timer", Null)
            /\ UNCHANGED phase

\* the storage becomes ready, or stops being ready
StorageChanges ==
    /\ Becomes([Cur EXCEPT !.ready = ~ready], "storage", Null)
    /\ UNCHANGED phase

Next ==
    \/ Log
    \/ Start
    \/ Flush
    \/ Stop
    \/ TimerFires
    \/ StorageChanges

Spec == Init /\ [][Next]_vars

\* The collector with one message text per timestamp
OneTextArgLists == {<<Str("abcd")>>}

LogOneText == LogOf({"log"}, Timestamps, OneTextArgLists, MaxSubmits, FALSE)

\* The same with a window that runs the callback of every timeout that stays
\* pending
LogQueued == LogOf({"log"}, Timestamps, OneTextArgLists, MaxQueued, FALSE)

LiveNext ==
    \/ LogQueued
    \/ Start
    \/ Flush
    \/ Stop
    \/ TimerFires
    \/ StorageChanges

LiveSpec == Init /\ [][LiveNext]_vars /\ WF_vars(TimerFires)

\* The collector with a storage whose isReady() or storeLogs() may raise: the
\* method raises once, at its next call
Faults == {"none", "isReady", "storeLogs"}

\* a method of the storage is about to raise, or no longer is; no more of it
\* once storeLogs was called as many times as there are submissions
StorageFaultChanges ==
    \E f \in Faults \ {fault} :
        /\ Len(stored) < MaxSubmits
        /\ Becomes([Cur EXCEPT !.fault = f], "storage", Null)
        /\ UNCHANGED phase

RaiseNext ==
    \/ LogOneText
    \/ Start
    \/ Flush
    \/ Stop
    \/ TimerFires
    \/ StorageChanges
    \/ StorageFaultChanges

RaiseSpec == Init /\ [][RaiseNext]_vars

\* The collector constructed with either value of options.stringifyObjects,
\* called at every level with an object, null or a string
ValueArgLists == {<<Obj>>, <<Null>>, <<Str("a")>>}
ValueTimestamps == {Undefined, Str("1"), Str("2")}

FormatInit == Constructed(BOOLEAN)

LogValues == LogOf(MethodNames, ValueTimestamps, ValueArgLists, MaxFormatted, TRUE)

FormatNext ==
    \/ LogValues
    \/ Flush
    \/ StorageChanges

FormatSpec == FormatInit /\ [][FormatNext]_vars

\* The loggers and the registry; no collector is in use
LoggerIds == {Undefined, Str(""), Str("a"), Str("b")}
LevelInputs == {LevelConstants["INFO"], LevelConstants["ERROR"]}

Reg ==
    [curLevel |-> curLevel, loggers |-> loggers, idLoggers |-> idLoggers,
     created |-> created]

\* the state after a function of index.ts or a method of a logger that ended
\* with the record g
RegistryBecomes(g, op, logger, level, id, called) ==
    /\ curLevel' = g.curLevel
    /\ loggers' = g.loggers
    /\ idLoggers' = g.idLoggers
    /\ created' = g.created
    /\ last' = [op |-> op, logger |-> logger, level |-> level, id |-> id,
                called |-> called]
    /\ UNCHANGED <<globalTransports, globalOptions>>
    /\ UNCHANGED collectorVars

RegistryInit == Init /\ ~ready

GetLogger ==
    \E id \in LoggerIds :
        /\ Len(created) < MaxLoggers
        /\ RegistryBecomes(getLogger(Reg, id), "getLogger",
                           Len(created) + 1, curLevel, id, <<>>)

GetUntrackedLogger ==
    \E id \in LoggerIds :
        /\ Len(created) < MaxLoggers
        /\ RegistryBecomes(getUntrackedLogger(Reg, id), "getUntrackedLogger",
                           Len(created) + 1, curLevel, id, <<>>)

SetLogLevelById ==
    \E level \in LevelInputs, id \in LoggerIds :
        RegistryBecomes(setLogLevelById(Reg, level, id), "setLogLevelById",
                        0, level, id, <<>>)

SetLogLevel ==
    \E level \in LevelInputs :
        RegistryBecomes(setLogLevel(Reg, level), "setLogLevel",
                        0, level, Undefined, <<>>)

\* logger[ level ]( ... ), the method the constructor binds to __log
LoggerLogs ==
    \E logger \in 1..Len(created), level \in MethodNames :
        RegistryBecomes(Reg, "call", logger, level, created[logger].id,
                        __log(Reg, globalTransports, logger, level))

RegistryNext ==
    \/ GetLogger
    \/ GetUntrackedLogger
    \/ SetLogLevelById
    \/ SetLogLevel
    \/ LoggerLogs

RegistrySpec == RegistryInit /\ [][RegistryNext]_vars

\* The global transports and the global options
Transports == {"console", "collector", "other"}
OptionsInputs ==
    {Null, Undefined, EmptyOptions, OptionsWith(Bool(TRUE)), OptionsWith(Bool(FALSE))}

\* the state after a static function of Logger that was called with arg and
\* left the transports ts and the options opts
GlobalsBecome(ts, opts, op, arg) ==
    /\ globalTransports' = ts
    /\ globalOptions' = opts
    /\ last' = [op |-> op, arg |-> arg]
    /\ UNCHANGED <<curLevel, loggers, idLoggers, created>>
    /\ UNCHANGED collectorVars

AddGlobalTransport ==
    \E transport \in Transports :
        /\ globalTransports' = addGlobalTransport(globalTransports, transport)
        /\ GlobalsBecome(globalTransports', globalOptions,
                         "addGlobalTransport", transport)

RemoveGlobalTransport ==
    \E transport \in Transports :
        /\ globalTransports' = removeGlobalTransport(globalTransports, transport)
        /\ GlobalsBecome(globalTransports', globalOptions,
                         "removeGlobalTransport", transport)

SetGlobalOptions ==
    \E options \in OptionsInputs :
        /\ globalOptions' = setGlobalOptions(options)
        /\ GlobalsBecome(globalTransports, globalOptions',
                         "setGlobalOptions", options)

GlobalsNext ==
    \/ AddGlobalTransport
    \/ RemoveGlobalTransport
    \/ SetGlobalOptions

GlobalsSpec == RegistryInit /\ [][GlobalsNext]_vars

----------------------------------------------------------------------------
(* A storage that logs.  storeLogs() of the storage calls the collector's    *)
(* log method before it returns, so _log and _flush run nested in the        *)
(* _flush that called storeLogs.  The storage is handed this.queue itself,   *)
(* not a copy: live tells which of the batches passed to storeLogs          *)
(* (<<"stored", i>>) and which of the cached snapshots (<<"cached", i>>)     *)
(* are the array that is this.queue at the moment, and stored keeps every    *)
(* batch as it was when it was passed.  isReady() answers what the           *)
(* storage's state is, at every call.                                        *)

\* when the storage logs: never, in the first storeLogs call of an
\* operation, or in every storeLogs call
SinkKinds == {"never", "first", "always"}

\* what the storage passes to the collector's log method
SinkArgs == <<Str("n")>>

SinkLogsNow(c) == c.sink = "always" \/ (c.sink = "first" /\ c.calls = 0)

\* this.queue.length = 0 in the place of this.queue = []: the array that
\* was passed on stays the array of the queue
ResetQueue_SameArray(c) == ResetQueue(c)

\* this.queue = []; this.totalLen = 0: the queue is a new array, which was
\* passed to nobody
ResetQueue_Reentrant(c) == [ResetQueue(c) EXCEPT !.live = {}]

\* this.outputCache.push( this.queue )
CacheBatch_Reentrant(c) ==
    [CacheBatch(c) EXCEPT !.live = @ \cup {<<"cached", Len(c.outputCache) + 1>>}]

RECURSIVE storeLogs_Reentrant(_, _, _)
RECURSIVE forEachCached(_, _, _)
RECURSIVE SendBatches_Reentrant(_)
RECURSIVE _flush_Reentrant(_, _, _)
RECURSIVE _log_Reentrant(_, _, _, _, _)

\* this.logStorage.storeLogs( batch ), isQueue telling that batch is
\* this.queue; calls nested MaxNesting deep are not followed further and
\* counted as endless
storeLogs_Reentrant(c, batch, isQueue) ==
    IF c.endless THEN c
    ELSE LET c1 == [c EXCEPT !.stored = Append(@, batch),
                             !.calls = @ + 1,
                             !.live = IF isQueue
                                      THEN @ \cup {<<"stored", Len(c.stored) + 1>>}
                                      ELSE @]
         IN IF ~SinkLogsNow(c) THEN c1
            ELSE IF c.depth >= MaxNesting THEN [c1 EXCEPT !.endless = TRUE]
            ELSE LET c2 == _log_Reentrant([c1 EXCEPT !.depth = @ + 1],
                                          c.stringifyObjects, "log",
                                          Undefined, SinkArgs)
                 IN [c2 EXCEPT !.depth = @ - 1]

\* this.outputCache.forEach( cachedQueue => storeLogs( cachedQueue ) ), over
\* the array that was this.outputCache when forEach was called
forEachCached(c, cache, i) ==
    IF i > Len(cache) THEN c
    ELSE forEachCached(storeLogs_Reentrant(c, cache[i], <<"cached", i>> \in c.live),
                       cache, i + 1)

\* the storage is ready: the cached batches are stored and the cache is
\* cleared, then this.queue, as it is by then, is stored
SendBatches_Reentrant(c) ==
    LET c1 == IF Len(c.outputCache) > 0
              THEN [forEachCached(c, c.outputCache, 1) EXCEPT
                        !.outputCache = <<>>,
                        !.live = {a \in @ : a[1] = "stored"}]
              ELSE c
    IN storeLogs_Reentrant(c1, c1.queue, TRUE)

_flush_Reentrant(c, force, reschedule) ==
    LET c0 == [c EXCEPT !.flushes = Append(@, [force |-> force,
                                               reschedule |-> reschedule])]
        c2 == IF PublishNow(c0, c0.ready, force)
              THEN LET c4 == IF c0.ready THEN SendBatches_Reentrant(c0)
                             ELSE CacheBatch_Reentrant(c0)
                   IN IF c4.endless THEN c4 ELSE ResetQueue_Reentrant(c4)
              ELSE c0
    IN IF reschedule /\ ~c2.endless THEN _reschedulePublishInterval(c2) ELSE c2

\* _log; a message pushed or counted while the storage holds this.queue
\* changes a batch that was passed to storeLogs
_log_Reentrant(c, stringifyOpt, logLevel, timestamp, args) ==
    LET msg == formatLogMessage(stringifyOpt, logLevel, timestamp, args)
        c1 == IF Truthy(msg)
              THEN [Aggregate(c, msg.v, timestamp) EXCEPT
                        !.modified = @ \/ c.live # {},
                        !.nested = IF c.depth > 0 THEN @ \cup {c.accepted + 1}
                                   ELSE @]
              ELSE c
    IN IF SizeLimitReached(c1) THEN _flush_Reentrant(c1, TRUE, TRUE) ELSE c1

\* the record the methods work on, with a storage of kind sink
CurReentrant(sink) ==
    [queue |-> queue, totalLen |-> totalLen, outputCache |-> outputCache,
     storeLogsIntervalID |-> storeLogsIntervalID, timers |-> timers,
     ready |-> ready, fault |-> fault, stored |-> stored, accepted |-> accepted,
     stringifyObjects |-> stringifyObjects,
     taken |-> FALSE, flushes |-> <<>>, sink |-> sink, calls |-> 0, depth |-> 0,
     live |-> live, modified |-> FALSE, endless |-> FALSE, nested |-> {}]

ReentrantBecomes(c, op) ==
    /\ queue' = c.queue
    /\ totalLen' = c.totalLen
    /\ outputCache' = c.outputCache
    /\ storeLogsIntervalID' = c.storeLogsIntervalID
    /\ timers' = c.timers
    /\ ready' = c.ready
    /\ fault' = c.fault
    /\ stored' = c.stored
    /\ accepted' = c.accepted
    /\ live' = c.live
    /\ last' = [op |-> op, sink |-> c.sink, taken |-> c.taken,
                flushes |-> c.flushes, calls |-> c.calls,
                modified |-> c.modified, endless |-> c.endless,
                nested |-> c.nested]
    /\ UNCHANGED <<stringifyObjects, phase>>
    /\ UNCHANGED registryVars

\* what the callers other than the storage pass
ReentrantArgLists == {<<Str("abcd")>>, <<Str("e")>>}

\* collector.log( text ) by a caller that is not the storage, the storage
\* being of one of kinds
LogWith(kinds) ==
    \E sink \in kinds, args \in ReentrantArgLists :
        /\ accepted < MaxSubmits
        /\ ReentrantBecomes(_log_Reentrant(CurReentrant(sink), stringifyObjects,
                                           "log", Undefined, args), "relog")

FlushWith(kinds) ==
    \E sink \in kinds :
        /\ accepted < MaxSubmits
        /\ ReentrantBecomes(_flush_Reentrant(CurReentrant(sink), FALSE, TRUE),
                            "reflush")

LogReentrant == LogWith(SinkKinds)

FlushReentrant == FlushWith(SinkKinds)

ReentrantNext ==
    \/ LogReentrant
    \/ FlushReentrant
    \/ StorageChanges

ReentrantSpec == Init /\ [][ReentrantNext]_vars

\* The same collector with a storage that does not log
LogQuiet == LogWith({"never"})

FlushQuiet == FlushWith({"never"})

QuietNext ==
    \/ LogQuiet
    \/ FlushQuiet
    \/ StorageChanges

QuietSpec == Init /\ [][QuietNext]_vars

----------------------------------------------------------------------------
(* Logger.__log with its transports and its arguments.  A transport is a    *)
(* name; MethodsOf tells which level names are functions of it.  The        *)
(* logger is the object the constructor makes.                              *)

\* the console and a collector have a function for every level; "other" is
\* an object that has log and error only
MethodsOf ==
    [console |-> MethodNames, collector |-> MethodNames, other |-> {"log", "error"}]

\* const l = t[ level ]; l && typeof l === 'function'
HasFunction(t, level) == level \in MethodsOf[t]

\* an array of transports
TransportArray(items) == [t |-> "object", v |-> "", items |-> items]

\* new Logger( level, id, transports, options )
LoggerOf(level, id, transports, options) ==
    [id |-> id,
     options |-> IF Truthy(options) THEN options ELSE EmptyOptions,
     transports |-> IF Truthy(transports) THEN transports.items ELSE <<>>,
     level |-> levels[level]]

\* new Date().toISOString() at the n-th call of a transport: the clock
\* either stands still during __log or has moved on at every call
Clocks == {"still", "moving"}
Times == <<"T1", "T2", "T3", "T4", "T5">>
TimeAt(clock, n) ==
    IF clock = "still" THEN Str(Times[1]) ELSE Str(Times[n])

\* callerInfo: false when the logger's or the global options disable it,
\* else what getCallerInfo() found, caller being the method name it found
CallerInfoOf(logger, globalOpts, caller) ==
    IF Truthy(logger.options.disableCallerInfo)
       \/ Truthy(globalOpts.disableCallerInfo)
    THEN Bool(FALSE)
    ELSE [t |-> "object", v |-> "{}", methodName |-> caller]

\* [ `[${ logger.id }]` ] when the logger has an id
IdPrefix(logger) ==
    IF Truthy(logger.id) THEN <<Str("[" \o logger.id.v \o "]")>> ELSE <<>>

\* CallerPrefix never pushing anything
CallerPrefix_None(callerInfo) == <<>>

\* [ `<${ callerInfo.methodName }>: ` ] when there is caller info with a
\* method name of more than one character
CallerPrefix(callerInfo) ==
    IF Truthy(callerInfo) /\ Len(callerInfo.methodName) > 1
    THEN <<Str("<" \o callerInfo.methodName \o ">: ")>>
    ELSE <<>>

\* the loop over the transports, from the i-th on; calls are the calls made
\* so far, each with its transport, its method and its arguments
RECURSIVE TransportsLoop(_, _, _, _, _, _)
TransportsLoop(transports, i, level, parts, clock, calls) ==
    IF i > Len(transports) THEN calls
    ELSE TransportsLoop(transports, i + 1, level, parts, clock,
            IF HasFunction(transports[i], level)
            THEN Append(calls,
                        [transport |-> transports[i], method |-> level,
                         args |-> <<TimeAt(clock, Len(calls) + 1)>> \o parts])
            ELSE calls)

\* Logger.__log( logger, level, ...args ): the calls of transports it makes
__log_Calls(logger, globalTs, globalOpts, level, args, caller, clock) ==
    IF levels[level] < logger.level
    THEN <<>>
    ELSE LET callerInfo == CallerInfoOf(logger, globalOpts, caller)
         IN TransportsLoop(globalTs \o logger.transports, 1, level,
                           IdPrefix(logger) \o CallerPrefix(callerInfo) \o args,
                           clock, <<>>)

\* the loggers that are called, the levels they are called at, what they
\* are called with and what getCallerInfo finds as the caller's name
LoggerInputs ==
    {LoggerOf(level, id, transports, options) :
        level \in {"trace", "info"},
        id \in {Undefined, Str("a")},
        transports \in {Undefined, TransportArray(<<"collector", "other">>)},
        options \in {Undefined, OptionsWith(Bool(TRUE))}}
CalledLevels == {"debug", "log"}
CalledArgs == {<<>>, <<Str("m"), Obj>>}
CallerNames == {"f", "fn"}

\* logger[ level ]( ...args )
LoggerCalls ==
    \E logger \in LoggerInputs, level \in CalledLevels, args \in CalledArgs,
       caller \in CallerNames, clock \in Clocks :
        /\ last' = [op |-> "__log", logger |-> logger, level |-> level,
                    args |-> args, caller |-> caller,
                    calls |-> __log_Calls(logger, globalTransports, globalOptions,
                                          level, args, caller, clock)]
        /\ UNCHANGED registryVars
        /\ UNCHANGED collectorVars

DispatchNext ==
    \/ AddGlobalTransport
    \/ RemoveGlobalTransport
    \/ SetGlobalOptions
    \/ LoggerCalls

DispatchSpec == RegistryInit /\ [][DispatchNext]_vars

----------------------------------------------------------------------------
(* What the properties below speak of *)

\* an entry without the bookkeeping of the model: its text and its count
TextCount(e) == <<e.text, e.count>>
TextCounts(q) == [i \in 1..Len(q) |-> TextCount(q[i])]

\* the last operation was a submission that the collector took in / discarded
Submitted(l) == l.op = "log" /\ l.msg.t = "string" /\ l.msg.v # ""
Discarded(l) == l.op = "log" /\ ~(l.msg.t = "string" /\ l.msg.v # "")

\* the last operation ran a flush / a forced flush that also reschedules
Flushed(l) == l.flushes # <<>>
ForcedFlush(l) == l.flushes = <<[force |-> TRUE, reschedule |-> TRUE]>>

\* during the last operation's flush the storage was asked and never / always
\* answered that it is ready
StorageNotReady(l) == l.answers # <<>> /\ \A i \in 1..Len(l.answers) : ~l.answers[i]
StorageReady(l) == l.answers # <<>> /\ \A i \in 1..Len(l.answers) : l.answers[i]

\* what a queue q holds, by the rule of aggregation, once text was submitted
ExpectedTextCounts(q, text) ==
    IF q # <<>> /\ q[Len(q)].text = text
    THEN [i \in 1..Len(q) |->
            IF i = Len(q) THEN <<text, q[i].count + 1>> ELSE TextCount(q[i])]
    ELSE TextCounts(q) \o <<(<<text, 1>>)>>

\* the sum of the lengths of the texts of a sequence of text-count pairs
RECURSIVE SumLen(_)
SumLen(tc) == IF tc = <<>> THEN 0 ELSE Len(tc[1][1]) + SumLen(Tail(tc))

----------------------------------------------------------------------------
(* Aggregation *)

\* C1: a run of n >= 1 consecutive submissions of one text shorter than
\* maxEntryLength, started on an empty queue, is held as exactly one entry
\* whose count is n (the number of submissions it stands for), and totalLen is
\* the length of the text, counted once.  Stated by induction on n: the first
\* submission on an empty queue makes a run of one, and a submission of the
\* same text on a run of n makes a run of n + 1.
C1_RunIsOneEntry ==
    [][(Submitted(last') /\ Len(last'.msg.v) < maxEntryLength) =>
        LET text == last'.msg.v
        IN /\ queue = <<>> =>
                /\ TextCounts(queue') = <<(<<text, 1>>)>>
                /\ Cardinality(queue'[1].ids) = 1
                /\ totalLen' = Len(text)
           /\ (Len(queue) = 1 /\ queue[1].text = text /\ totalLen = Len(text)
               /\ queue[1].count = Cardinality(queue[1].ids)) =>
                /\ TextCounts(queue') = <<(<<text, queue[1].count + 1>>)>>
                /\ Cardinality(queue'[1].ids) = queue[1].count + 1
                /\ totalLen' = Len(text)
    ]_vars

\* a run of MaxSubmits submissions of one text since the collector was made
C1_Witness ==
    /\ Submitted(last)
    /\ accepted = MaxSubmits
    /\ Len(queue) = 1
    /\ queue[1].text = last.msg.v
    /\ queue[1].count = MaxSubmits
    /\ queue[1].ids = 1..MaxSubmits
    /\ totalLen = Len(queue[1].text)

\* C2: submitting A, then B # A, then A, with no flush in between, leaves the
\* entries (A, 1), (B, 1), (A, 1) in that order: a submission that differs from
\* the last entry is appended with count 1, also when an earlier entry has its
\* text, and no entry before the last one is ever changed by a submission.
C2_NoMergeAcrossInterruption ==
    [][(Submitted(last') /\ ~Flushed(last')) =>
        LET text == last'.msg.v
        IN /\ Len(queue') >= Len(queue)
           /\ \A i \in 1..(Len(queue) - 1) : queue'[i] = queue[i]
           /\ (queue # <<>> /\ queue[Len(queue)].text # text) =>
                TextCounts(queue') = TextCounts(queue) \o <<(<<text, 1>>)>>
    ]_vars

\* the queue holds (A, 1), (B, 1), (A, 1) after a submission of A
C2_Witness ==
    /\ Submitted(last)
    /\ Len(queue) = 3
    /\ queue[1].text = last.msg.v
    /\ queue[3].text = last.msg.v
    /\ queue[2].text # last.msg.v
    /\ \A i \in 1..3 : queue[i].count = 1

\* C3: a submission whose arguments format to the empty text, or to nothing to
\* log (null), changes neither the queue nor totalLen.
C3_NothingToLogChangesNothing ==
    [][Discarded(last') => (queue' = queue /\ totalLen' = totalLen)]_vars

\* a submission formatted to the empty text was discarded on a filled queue
C3_Witness ==
    /\ last.op = "log"
    /\ last.msg = Str("")
    /\ ~last.taken
    /\ queue # <<>>

\* C4: a submission that leaves totalLen >= maxEntryLength runs one flush with
\* force and reschedule before it returns, which empties the queue and leaves
\* exactly one timeout pending (with a ready storage the batch is stored); a
\* submission that leaves totalLen < maxEntryLength runs no flush: nothing is
\* stored or cached and the timeouts are as they were.
C4_SizeLimitForcesFlush ==
    [][last'.op = "log" =>
        LET after == IF Submitted(last')
                     THEN ExpectedTextCounts(queue, last'.msg.v)
                     ELSE TextCounts(queue)
        IN IF SumLen(after) >= maxEntryLength
           THEN /\ ForcedFlush(last')
                /\ queue' = <<>> /\ totalLen' = 0
                /\ Cardinality(timers') = 1
                /\ timers' = {storeLogsIntervalID'}
                /\ StorageReady(last') =>
                        /\ last'.nStored = Len(outputCache) + 1
                        /\ TextCounts(stored'[Len(stored')]) = after
           ELSE /\ ~Flushed(last')
                /\ stored' = stored
                /\ outputCache' = outputCache
                /\ timers' = timers
                /\ storeLogsIntervalID' = storeLogsIntervalID
                /\ totalLen' = SumLen(after)
    ]_vars

\* one submission of a text of maxEntryLength + 1 characters to a ready
\* storage: it was stored at once and the queue is empty
C4_Witness ==
    /\ Submitted(last)
    /\ Len(last.msg.v) = maxEntryLength + 1
    /\ ForcedFlush(last)
    /\ StorageReady(last)
    /\ last.nStored = 1
    /\ queue = <<>>
    /\ Cardinality(timers) = 1

----------------------------------------------------------------------------
(* Flushing *)

\* the text-count pairs of the batch a flush of the last operation found in the
\* queue: the queue itself, or, for a submission, the queue with it taken in
BatchOf(l, q) ==
    IF Submitted(l) THEN ExpectedTextCounts(q, l.msg.v) ELSE TextCounts(q)

\* C5: a forced flush that finds the storage not ready does not call
\* storeLogs; the queue's entries become one new snapshot at the end of
\* outputCache, the snapshots already there keep their place and content, and
\* the queue is empty with totalLen 0 afterwards.
C5_ForcedFlushCachesWhenNotReady ==
    [][(ForcedFlush(last') /\ StorageNotReady(last')) =>
        /\ BatchOf(last', queue) # <<>>
        /\ last'.nStored = 0
        /\ stored' = stored
        /\ Len(outputCache') = Len(outputCache) + 1
        /\ \A i \in 1..Len(outputCache) : outputCache'[i] = outputCache[i]
        /\ TextCounts(outputCache'[Len(outputCache')]) = BatchOf(last', queue)
        /\ queue' = <<>>
        /\ totalLen' = 0
    ]_vars

\* a second batch was cached behind the first one
C5_Witness ==
    /\ ForcedFlush(last)
    /\ StorageNotReady(last)
    /\ Len(outputCache) = 2
    /\ stored = <<>>
    /\ queue = <<>>

\* C6: a flush that delivers to a ready storage calls storeLogs once for each
\* snapshot of outputCache, in the order they were cached, and then once for
\* the current queue; afterwards outputCache and the queue are empty and
\* totalLen is 0.
C6_DeliveryDrainsCacheThenQueue ==
    [][(Flushed(last') /\ Len(last'.answers) = 2 /\ last'.answers[2]) =>
        /\ Len(stored') = Len(stored) + Len(outputCache) + 1
        /\ \A i \in 1..Len(stored) : stored'[i] = stored[i]
        /\ \A i \in 1..Len(outputCache) : stored'[Len(stored) + i] = outputCache[i]
        /\ TextCounts(stored'[Len(stored')]) = BatchOf(last', queue)
        /\ BatchOf(last', queue) # <<>>
        /\ outputCache' = <<>>
        /\ queue' = <<>>
        /\ totalLen' = 0
    ]_vars

\* the timeout stored two cached snapshots and then the queue
C6_Witness ==
    /\ last.op = "timer"
    /\ StorageReady(last)
    /\ last.nStored = 3
    /\ Len(stored) = 3
    /\ outputCache = <<>>
    /\ queue = <<>>

\* C7: when outputCache is not empty and the storage is ready, the next flush,
\* whatever runs it, passes every cached snapshot to storeLogs and leaves
\* outputCache empty.
C7_NextFlushStoresCache ==
    [][(outputCache # <<>> /\ ready /\ ready' /\ Flushed(last')) =>
        /\ outputCache' = <<>>
        /\ last'.nStored >= Len(outputCache)
        /\ \A i \in 1..Len(outputCache) : stored'[Len(stored) + i] = outputCache[i]
    ]_vars

----------------------------------------------------------------------------
(* The periodic task *)

\* C8: after stop() no timeout is pending.
C8_StopLeavesNoTimer ==
    [][last'.op = "stop" => timers' = {}]_vars

\* C9 as claimed: stop() on a filled queue with a storage that is not ready
\* moves the final batch into outputCache, without calling storeLogs.
C9_StopCachesFinalBatch ==
    [][(last'.op = "stop" /\ queue # <<>> /\ ~ready) =>
        /\ last'.nStored = 0
        /\ outputCache' = Append(outputCache, queue)
    ]_vars

\* C9: stop() on a filled queue with a storage that is not ready does not call
\* storeLogs and leaves the final batch where it is, in the queue: the queue,
\* totalLen and outputCache are unchanged, so every entry is still held.
C9_StopKeepsFinalBatchQueued ==
    [][(last'.op = "stop" /\ queue # <<>> /\ ~ready) =>
        /\ last'.nStored = 0
        /\ stored' = stored
        /\ queue' = queue
        /\ totalLen' = totalLen
        /\ outputCache' = outputCache
    ]_vars

\* stop() found a filled queue and a storage that is not ready
C9_Witness ==
    /\ last.op = "stop"
    /\ last.answers = <<FALSE>>
    /\ last.nStored = 0
    /\ queue # <<>>
    /\ outputCache = <<>>

\* the entries of a sequence of batches, in order
RECURSIVE Flat(_)
Flat(batches) ==
    IF batches = <<>> THEN <<>> ELSE batches[1] \o Flat(Tail(batches))

\* every entry the storage was passed, then those cached, then the queue's
AllEntries == Flat(stored) \o Flat(outputCache) \o queue

\* the number of entries, stored, cached or queued, that hold submission id
Places(id) == Cardinality({i \in 1..Len(AllEntries) : id \in AllEntries[i].ids})

\* C10: across stop() and a later start(), every submission taken in (those
\* between the two calls included) is held in exactly one place, an entry of
\* the queue, of one cached snapshot or of one batch passed to storeLogs: it
\* is passed to storeLogs at most once and is not dropped; and after start()
\* exactly one timeout is pending, the one the collector remembers.
C10_StopStartKeepsEntries ==
    /\ LET all == AllEntries
       IN /\ UNION {all[i].ids : i \in 1..Len(all)} = 1..accepted
          /\ \A i, j \in 1..Len(all) : i # j => all[i].ids \cap all[j].ids = {}
    /\ last.op = "start" =>
            (Cardinality(timers) = 1 /\ timers = {storeLogsIntervalID})

\* the only submission was taken in while stopped, and the timeout that
\* start() armed afterwards has stored it
C10_Witness ==
    /\ phase = "restarted"
    /\ accepted = 1
    /\ last.op = "timer"
    /\ last.nStored = 1
    /\ Len(stored) = 1
    /\ Places(1) = 1
    /\ queue = <<>>
    /\ outputCache = <<>>
    /\ Cardinality(timers) = 1

----------------------------------------------------------------------------
(* The flush timer *)

\* C11: in every reachable state, whatever start(), stop(), flush(),
\* submissions and firings of the timer led to it, at most one flush timer is
\* pending, and it is the one the collector holds the id of.
C11_AtMostOneTimerPending ==
    /\ Cardinality(timers) <= 1
    /\ timers \subseteq {storeLogsIntervalID}

\* start() was called again on a collector that was stopped and had taken a
\* submission since, the storage has a batch and one timer is pending
C11_Witness ==
    /\ last.op = "start"
    /\ phase = "restarted"
    /\ stored # <<>>
    /\ Cardinality(timers) = 1

\* C13: flush() is a flush that is not forced and reschedules: when the storage
\* is ready and the queue is not empty, the cached batches and the queue are
\* stored and both are emptied; when the storage is not ready, the queue, the
\* cache and what the storage received stay as they were; in both cases exactly
\* one timer is pending afterwards, also when start() was never called.
C13_FlushDeliversOrKeeps ==
    [][last'.op = "flush" =>
        /\ last'.flushes = <<[force |-> FALSE, reschedule |-> TRUE]>>
        /\ Cardinality(timers') = 1
        /\ timers' = {storeLogsIntervalID'}
        /\ (queue # <<>> /\ StorageReady(last')) =>
              /\ stored' = stored \o outputCache \o <<queue>>
              /\ queue' = <<>>
              /\ totalLen' = 0
              /\ outputCache' = <<>>
        /\ ~ready =>
              /\ queue' = queue
              /\ totalLen' = totalLen
              /\ outputCache' = outputCache
              /\ stored' = stored
    ]_vars

\* flush() on a collector never started, with a ready storage: the one
\* submission, shorter than the size limit, was stored and a timer is pending
C13_Witness ==
    /\ last.op = "flush"
    /\ phase = "idle"
    /\ StorageReady(last)
    /\ last.nStored = 1
    /\ accepted = 1
    /\ queue = <<>>
    /\ Cardinality(timers) = 1

\* submission number id is held in the live queue / was passed to storeLogs
InQueue(id) == \E i \in 1..Len(queue) : id \in queue[i].ids
InStored(id) ==
    \E b \in 1..Len(stored) : \E i \in 1..Len(stored[b]) : id \in stored[b][i].ids

\* C12: once the collector was started, if from some point on the storage is
\* always ready, every entry held in the live queue from that point on is
\* eventually passed to storeLogs, given that pending timers do fire; no size
\* limit needs to be reached for that.  Stated as: an entry queued in a started
\* collector leads to the entry being stored or to the storage not being
\* ready, which is [](queued /\ []ready => <>stored) with the []ready moved to
\* the right-hand side.
C12_QueuedIsEventuallyStored ==
    \A id \in 1..MaxQueued :
        (phase \in {"started", "restarted"} /\ InQueue(id))
            ~> (InStored(id) \/ ~ready)

\* the timer of a started collector fired with a ready storage and stored a
\* batch that is shorter than the size limit
C12_Witness ==
    /\ last.op = "timer"
    /\ phase = "started"
    /\ StorageReady(last)
    /\ last.nStored = 1
    /\ queue = <<>>
    /\ SumLen(TextCounts(stored[Len(stored)])) < maxEntryLength
    /\ InStored(accepted)

----------------------------------------------------------------------------
(* A storage that raises *)

\* C14: no submission raises into its caller, whatever the storage does: the
\* per-level method returns normally also when the size limit forces a flush
\* and isReady() or storeLogs() raises.
C14_SubmissionNeverRaises ==
    last.op = "log" => ~last.raised

\* C15: when isReady() raises during a flush, the flush goes on as if the
\* storage had answered that it is not ready: a forced flush moves the queue
\* to the end of outputCache, a flush that is not forced leaves the queue and
\* outputCache as they are, nothing is passed to storeLogs, and a timer is
\* pending afterwards when the flush was to reschedule.
C15_IsReadyRaisingIsNotReady ==
    [][(fault = "isReady" /\ Flushed(last') /\ BatchOf(last', queue) # <<>>) =>
        /\ ~last'.raised
        /\ stored' = stored
        /\ IF last'.flushes[1].force
           THEN /\ Len(outputCache') = Len(outputCache) + 1
                /\ TextCounts(outputCache'[Len(outputCache')]) = BatchOf(last', queue)
                /\ queue' = <<>>
                /\ totalLen' = 0
           ELSE /\ queue' = queue
                /\ totalLen' = totalLen
                /\ outputCache' = outputCache
        /\ last'.flushes[1].reschedule => Cardinality(timers') = 1
    ]_vars

\* no entry was passed to storeLogs twice
PassedOnce(batches) ==
    \A i, j \in 1..Len(Flat(batches)) :
        i # j => Flat(batches)[i].ids \cap Flat(batches)[j].ids = {}

\* C16: when storeLogs() raises for a batch, the batch counts as sent: the
\* flush goes on to pass the remaining cached snapshots and the queue to
\* storeLogs, outputCache and the queue are empty afterwards, and no batch is
\* ever passed to storeLogs a second time.
C16_StoreLogsRaisingIsSent ==
    [][(fault = "storeLogs" /\ Flushed(last')
            /\ Len(last'.answers) = 2 /\ last'.answers[2]) =>
        /\ ~last'.raised
        /\ Len(stored') = Len(stored) + Len(outputCache) + 1
        /\ \A i \in 1..Len(outputCache) : stored'[Len(stored) + i] = outputCache[i]
        /\ TextCounts(stored'[Len(stored')]) = BatchOf(last', queue)
        /\ outputCache' = <<>>
        /\ queue' = <<>>
        /\ totalLen' = 0
        /\ PassedOnce(stored')
    ]_vars

----------------------------------------------------------------------------
(* Formatting *)

\* the last operation called the method of a level with the one argument arg
CalledWith(l, arg) == l.op = "log" /\ l.call # <<>> /\ l.call[3] = <<arg>>

\* the text of a submission made of a timestamp and the rendering of one
\* argument
TextOf(timestamp, rendering) ==
    IF Truthy(timestamp) THEN timestamp.v \o "," \o rendering ELSE rendering

\* C17: an object argument is rendered by JSON.stringify exactly when
\* stringifyObjects is enabled or the method called is the one of the error
\* level; so with stringifyObjects disabled an object logged through error is
\* stringified and an object logged through any other level is not.
C17_ObjectsStringifiedOnError ==
    CalledWith(last, Obj) =>
        last.msg = Str(TextOf(last.call[2],
                              IF stringifyObjects \/ last.call[1] = "error"
                              THEN "{}"
                              ELSE "[object Object]"))

----------------------------------------------------------------------------
(* Levels of the loggers *)

\* the levels from the least to the most severe, and the place of a level
LevelOrder == <<"trace", "debug", "info", "log", "warn", "error">>
Rank(level) == CHOOSE i \in 1..Len(LevelOrder) : LevelOrder[i] = level

\* the level a logger is at
LevelOf(logger) ==
    CHOOSE level \in MethodNames : levels[level] = created[logger].level

\* C18: a logger forwards a call to its transports exactly when the level of
\* the call is at or above the logger's own level in the order trace < debug <
\* info < log < warn < error; a logger at info forwards info, log, warn and
\* error and nothing else.
C18_ForwardsAtOrAboveLevel ==
    last.op = "call" =>
        /\ last.called # <<>> <=> Rank(last.level) >= Rank(LevelOf(last.logger))
        /\ last.called # <<>> => last.called = globalTransports
        /\ LevelOf(last.logger) = "info" =>
              (last.called # <<>> <=> last.level \in {"info", "log", "warn", "error"})

\* a logger at info was called at info and the console transport got the call
C18_Witness ==
    /\ last.op = "call"
    /\ LevelOf(last.logger) = "info"
    /\ last.level = "info"
    /\ last.called = <<"console">>

\* logger was made by getLogger
Tracked(o) == o.by = "getLogger"

\* C19: after setLogLevel(L) every logger made by getLogger before, with or
\* without id, is at L, whatever getLogger, setLogLevelById and setLogLevel
\* calls came before; and a logger made afterwards by getLogger or
\* getUntrackedLogger starts at L: L is the level kept for new loggers, only
\* setLogLevel changes it, and a new logger starts at the level kept.
C19_SetLogLevelReachesAll ==
    [][/\ last'.op = "setLogLevel" =>
            /\ curLevel' = last'.level
            /\ \A i \in 1..Len(created') :
                  Tracked(created'[i]) => created'[i].level = Rank(last'.level) - 1
       /\ last'.op \in {"getLogger", "getUntrackedLogger"} =>
            /\ Len(created') = Len(created) + 1
            /\ created'[Len(created')].level = Rank(curLevel) - 1
       /\ last'.op # "setLogLevel" => curLevel' = curLevel
    ]_vars

\* after setLogLevel(error) a tracked logger with an id and one without are
\* both at error
C19_Witness ==
    /\ last.op = "setLogLevel"
    /\ last.level = "error"
    /\ \E i, j \in 1..Len(created) :
          /\ Tracked(created[i]) /\ Truthy(created[i].id)
          /\ Tracked(created[j]) /\ ~Truthy(created[j].id)
          /\ created[i].level = 5
          /\ created[j].level = 5

\* the logger object o is one that setLogLevelById called with id reaches: a
\* tracked logger made with that id, or made without id (or with the empty
\* string, which is no id) when the call has none
ReachedById(o, id) ==
    Tracked(o) /\ (IF Truthy(id) THEN o.id = id ELSE ~Truthy(o.id))

\* C20: setLogLevelById(L, id) puts at L exactly the tracked loggers made
\* with that id, or, called without id, exactly the tracked loggers made
\* without id; every other logger keeps its level, so nothing changes for an
\* id no logger was made with; the level kept for loggers made later and the
\* registry do not change.
C20_SetLogLevelByIdReachesOnlyId ==
    [][last'.op = "setLogLevelById" =>
        /\ Len(created') = Len(created)
        /\ \A i \in 1..Len(created) :
              created'[i] = IF ReachedById(created[i], last'.id)
                            THEN [created[i] EXCEPT !.level = Rank(last'.level) - 1]
                            ELSE created[i]
        /\ curLevel' = curLevel
        /\ loggers' = loggers
        /\ idLoggers' = idLoggers
    ]_vars

\* setLogLevelById(error, "a") put the logger made with id "a" at error and
\* left the other tracked logger at trace
C20_Witness ==
    /\ last.op = "setLogLevelById"
    /\ last.id = Str("a")
    /\ last.level = "error"
    /\ \E i, j \in 1..Len(created) :
          /\ ReachedById(created[i], Str("a")) /\ created[i].level = 5
          /\ Tracked(created[j]) /\ created[j].id # Str("a")
          /\ created[j].level = 0

----------------------------------------------------------------------------
(* The global transports and options *)

\* no transport is twice in the list
NoDuplicates(ts) == \A i, j \in 1..Len(ts) : ts[i] = ts[j] => i = j
Registered(ts, t) == \E i \in 1..Len(ts) : ts[i] = t
Added(l) == l.op = "addGlobalTransport"
Removed(l) == l.op = "removeGlobalTransport"

\* C21: whatever addGlobalTransport and removeGlobalTransport calls were
\* made, no transport is twice in the list of global transports: adding one
\* that is registered leaves the list as it is, adding another one puts it at
\* the end.
C21_NoTransportTwice ==
    [][/\ NoDuplicates(globalTransports')
       /\ Added(last') =>
            globalTransports' = IF Registered(globalTransports, last'.arg)
                                THEN globalTransports
                                ELSE Append(globalTransports, last'.arg)
    ]_vars

\* console was added again to a list of three transports that has it
C21_Witness ==
    /\ Added(last)
    /\ last.arg = "console"
    /\ Len(globalTransports) = 3
    /\ globalTransports[1] = "console"

\* C22: the list of global transports is [console] at first;
\* removeGlobalTransport(t) leaves t out of the list and the others in their
\* order, and leaves the list as it is when t is not registered.
C22_RemoveTakesOutOne ==
    /\ (last.op = "init" => globalTransports = <<"console">>)
    /\ [][Removed(last') =>
            /\ ~Registered(globalTransports', last'.arg)
            /\ globalTransports' =
                  SelectSeq(globalTransports, LAMBDA t : t # last'.arg)
            /\ ~Registered(globalTransports, last'.arg) =>
                  globalTransports' = globalTransports
       ]_vars

\* the first of three transports was removed and the two others are left
C22_Witness ==
    /\ Removed(last)
    /\ Len(globalTransports) = 2
    /\ ~Registered(globalTransports, last.arg)
    /\ globalTransports[2] = "console"

----------------------------------------------------------------------------
(* The queue, its length and the flushes that leave it alone *)

\* C24: between operations totalLen is the sum of the lengths of the texts of
\* the entries in the queue, each entry counted once whatever its count, and
\* totalLen is 0 exactly when the queue is empty.
C24_TotalLenIsSumOfTexts ==
    /\ totalLen = SumLen(TextCounts(queue))
    /\ totalLen = 0 <=> queue = <<>>

\* the queue holds one entry that stands for two submissions and a second
\* entry; totalLen counts each text once
C24_Witness ==
    /\ Len(queue) = 2
    /\ queue[1].count = 2
    /\ totalLen = Len(queue[1].text) + Len(queue[2].text)

\* the last operation ran a flush that was not forced
UnforcedFlush(l) == Flushed(l) /\ ~l.flushes[1].force

\* C25: a flush that is not forced and finds the storage not ready passes
\* nothing to storeLogs and leaves the queue, totalLen and outputCache as they
\* were; only the timer may change, and one is pending when the flush
\* reschedules.
C25_UnforcedNotReadyKeepsAll ==
    [][(UnforcedFlush(last') /\ ~ready) =>
        /\ last'.nStored = 0
        /\ stored' = stored
        /\ queue' = queue
        /\ totalLen' = totalLen
        /\ outputCache' = outputCache
        /\ ready' = ready
        /\ last'.flushes[1].reschedule => timers' = {storeLogsIntervalID'}
    ]_vars

\* the timer fired with entries queued and a batch cached while the storage
\* was not ready: both are still there and the timer is armed again
C25_Witness ==
    /\ last.op = "timer"
    /\ StorageNotReady(last)
    /\ queue # <<>>
    /\ outputCache # <<>>
    /\ Cardinality(timers) = 1

\* C26: outputCache grows only in a forced flush: a flush that is not forced
\* (the timer's, flush(), stop()) never appends a snapshot to outputCache,
\* also when isReady() answers differently at its two calls of one flush.
C26_CacheGrowsOnlyWhenForced ==
    [][UnforcedFlush(last') => Len(outputCache') <= Len(outputCache)]_vars

\* the fields of the collector and what the storage received are in c as
\* they are now
Untouched(c) ==
    /\ c.queue = queue
    /\ c.totalLen = totalLen
    /\ c.outputCache = outputCache
    /\ c.stored = stored
    /\ c.answers = <<>>

C30_RescheduleCancelsPending ==
    [][(Flushed(last') /\ last'.flushes[1].reschedule) =>
        /\ storeLogsIntervalID' # 0
        /\ timers' = {storeLogsIntervalID'}
    ]_vars

\* a submission reached the size limit on a started collector whose timer was
\* pending: one timer is pending after the forced flush
C30_Witness ==
    /\ ForcedFlush(last)
    /\ phase = "started"
    /\ Cardinality(timers) = 1

----------------------------------------------------------------------------
(* Timestamps and aggregation *)

\* where the entries are that the queue held when the last operation had
\* taken its submission in: the queue, or the batch its flush stored or cached
LatestBatch ==
    IF ~Flushed(last) THEN queue
    ELSE IF last.nStored > 0 THEN stored[Len(stored)]
    ELSE outputCache[Len(outputCache)]

\* two submissions in a row, both taken in, through the same method and with
\* the same arguments, the first one still in the queue
SameCallTwice ==
    /\ Submitted(last) /\ ~Flushed(last) /\ last.call # <<>>
    /\ Submitted(last')
    /\ last'.call[1] = last.call[1]
    /\ last'.call[3] = last.call[3]
    /\ queue # <<>>

\* the second submission was counted on the entry of the first one, which
\* keeps its text and its timestamp
CollapsedIntoOne ==
    LET n == Len(queue)
    IN /\ Len(LatestBatch') = n
       /\ LatestBatch'[n].count = queue[n].count + 1
       /\ LatestBatch'[n].text = queue[n].text
       /\ LatestBatch'[n].timestamp = queue[n].timestamp

\* the second submission became an entry of its own behind the first one
KeptApart ==
    LET n == Len(queue)
    IN /\ Len(LatestBatch') = n + 1
       /\ LatestBatch'[n].count = queue[n].count
       /\ LatestBatch'[n].text = queue[n].text
       /\ LatestBatch'[n + 1].count = 1
       /\ LatestBatch'[n + 1].timestamp = last'.call[2]

\* C27 as stated: the timestamp is not part of what is compared, so two
\* submissions in a row with the same level and arguments and different
\* timestamps are one entry with count 2 and the timestamp of the first.
C27_TimestampNotCompared ==
    [][(SameCallTwice /\ last'.call[2] # last.call[2]) => CollapsedIntoOne]_vars

\* C27 amended: what is compared is the formatted text, which begins with the
\* timestamp when one is given: two submissions in a row with the same level
\* and arguments are one entry, with the timestamp of the first, when their
\* timestamps are the same, and two entries when their timestamps differ.
C27_TimestampIsCompared ==
    [][SameCallTwice =>
        IF last'.call[2] = last.call[2] THEN CollapsedIntoOne ELSE KeptApart
    ]_vars

\* two submissions of null with the timestamps "1" and "2" are two entries in
\* the queue
C27_Witness ==
    /\ Submitted(last)
    /\ last.call # <<>>
    /\ Len(queue) = 2
    /\ queue[1].timestamp = Str("1")
    /\ queue[2].timestamp = Str("2")
    /\ queue[1].text = "1,"
    /\ queue[2].text = "2,"

----------------------------------------------------------------------------
(* A storage that logs while it stores *)

\* C28: when storeLogs of the storage submits a message to the collector
\* during a flush, the nested calls end, no batch that was passed to
\* storeLogs is changed afterwards, and after the operation the message is in
\* exactly one place: the queue, a cached batch or a batch as it was passed
\* to storeLogs.
C28_ReentrantSubmissionIsSafe ==
    (last.op \in {"relog", "reflush"} /\ last.nested # {}) =>
        /\ ~last.endless
        /\ ~last.modified
        /\ \A id \in last.nested : Places(id) = 1

----------------------------------------------------------------------------
(* What formatLogMessage returns *)

\* C31: formatLogMessage returns null or a string that is not empty, whatever
\* the level, the timestamp and the arguments are, also when every argument
\* renders to the empty text; it never returns the empty string.
C31_FormatReturnsTextOrNull ==
    last.op = "log" =>
        \/ last.msg = Null
        \/ last.msg.t = "string" /\ last.msg.v # ""

----------------------------------------------------------------------------
(* Order and conservation of the submissions *)

\* the submissions counted on the entries before an entry were all made
\* before the ones counted on it
InSubmissionOrder(all) ==
    \A i, j \in 1..Len(all) :
        i < j => \A a \in all[i].ids, b \in all[j].ids : a < b

\* an entry counts submissions that were made one right after the other
Consecutive(e) ==
    \A a, b \in e.ids : \A n \in a..b : n \in e.ids

\* C32: with a storage that does not raise, the entries of the batches passed
\* to storeLogs in the order of the calls, then those of the cached snapshots
\* in their order, then those of the queue, are the aggregated entries in the
\* order of their submission: every submission taken in is counted there, on
\* an entry of submissions that followed one another, and no entry comes
\* before an entry of earlier submissions.
C32_DeliveryInSubmissionOrder ==
    LET all == AllEntries
    IN /\ InSubmissionOrder(all)
       /\ \A i \in 1..Len(all) : Consecutive(all[i])
       /\ \A id \in 1..accepted : \E i \in 1..Len(all) : id \in all[i].ids

\* a flush stored a cached snapshot and then the queue, three submissions in
\* all
C32_Witness ==
    /\ last.op \in {"log", "flush", "timer", "stop"}
    /\ last.nStored >= 2
    /\ accepted = MaxSubmits
    /\ outputCache = <<>>
    /\ queue = <<>>

RECURSIVE SumCounts(_)
SumCounts(all) ==
    IF all = <<>> THEN 0 ELSE Head(all).count + SumCounts(Tail(all))

\* C33: with a storage that does not raise, every submission taken in is
\* counted exactly once: by one entry only, which is in the queue, in one
\* cached snapshot or in one batch passed to storeLogs; an entry's count is
\* the number of submissions it holds, and the counts add up to the number of
\* submissions taken in.
C33_EntriesAreConserved ==
    LET all == AllEntries
    IN /\ \A id \in 1..accepted : Places(id) = 1
       /\ \A i \in 1..Len(all) : all[i].count = Cardinality(all[i].ids)
       /\ SumCounts(all) = accepted

\* three submissions were taken in; one was stored, one is cached and one is
\* in the queue
C33_Witness ==
    /\ accepted = MaxSubmits
    /\ Len(stored) = 1
    /\ Len(outputCache) = 1
    /\ Len(queue) = 1

----------------------------------------------------------------------------
(* The shape of the batches *)

\* every entry of batch b counts at least one submission, and no entry has
\* the text of the entry before it
WellAggregated(b) ==
    /\ \A i \in 1..Len(b) : b[i].count >= 1
    /\ \A i \in 1..(Len(b) - 1) : b[i].text # b[i + 1].text

\* C34: always, every entry of the queue, of a cached snapshot and of a batch
\* passed to storeLogs has a count of at least 1 and a text other than the
\* text of the entry next to it in the same queue, snapshot or batch; and a
\* submission taken in while the queue is empty, as it is after a flush that
\* published it, makes a new entry with count 1, also when its text is the
\* text of the last entry of the batch that was flushed.
C34_EntriesAreWellAggregated ==
    /\ [](/\ WellAggregated(queue)
          /\ \A b \in 1..Len(outputCache) : WellAggregated(outputCache[b])
          /\ \A b \in 1..Len(stored) : WellAggregated(stored[b]))
    /\ [][(Submitted(last') /\ queue = <<>>) =>
            /\ Len(LatestBatch') = 1
            /\ LatestBatch'[1].count = 1
            /\ LatestBatch'[1].text = last'.msg.v
            /\ LatestBatch'[1].ids = {accepted'}]_vars

\* a batch was stored, and the next submission, with the text of the last
\* entry of that batch, is an entry of its own with count 1 in the queue
C34_Witness ==
    /\ Submitted(last)
    /\ stored # <<>>
    /\ Len(queue) = 1
    /\ queue[1].count = 1
    /\ LET b == stored[Len(stored)]
       IN b # <<>> /\ b[Len(b)].text = queue[1].text

----------------------------------------------------------------------------
(* Empty batches, the size of the queue, and the timer *)

\* C35: storeLogs is never called with an empty batch and outputCache never
\* holds an empty snapshot, whatever operations are called, flush(), stop()
\* and the timeout firing while the queue is empty included.
C35_NoEmptyBatch ==
    /\ \A b \in 1..Len(stored) : stored[b] # <<>>
    /\ \A b \in 1..Len(outputCache) : outputCache[b] # <<>>

\* flush(), stop() or the timeout ran with a ready storage, an empty queue and
\* a snapshot in the cache, and the storage was not called
C35_Witness ==
    /\ last.op \in {"flush", "stop", "timer"}
    /\ Flushed(last)
    /\ last.answers = <<>>
    /\ last.nStored = 0
    /\ ready
    /\ queue = <<>>
    /\ outputCache # <<>>

\* C36: after every submission, whether the storage is ready or not,
\* totalLen is less than maxEntryLength: the queue holds no more than what
\* came in since the last flush that the size limit forced.
C36_QueueStaysBelowLimit ==
    last.op = "log" => totalLen < maxEntryLength

\* a submission reached the limit while the storage was not ready; the queue
\* went to the cache and is empty
C36_Witness ==
    /\ Submitted(last)
    /\ ForcedFlush(last)
    /\ StorageNotReady(last)
    /\ totalLen = 0
    /\ queue = <<>>
    /\ outputCache # <<>>

\* C38: a submission does not start the periodic task: after a submission to
\* a collector that was not started, or was stopped and not started again, no
\* timeout is pending, also when the submission reached the size limit.
C38_SubmissionStartsNoTimer ==
    (last.op = "log" /\ phase \in {"idle", "stopped", "stoppedLogged"}) =>
        timers = {}

----------------------------------------------------------------------------
(* Batches that left the queue *)

\* every batch of before is a batch of after, at the same place
KeptAsPrefix(before, after) ==
    /\ Len(after) >= Len(before)
    /\ SubSeq(after, 1, Len(before)) = before

\* C37: a batch that left the queue stays as it was: once a flush has passed
\* the queue to storeLogs or pushed it onto outputCache, the queue is another
\* array, and no submission or flush that follows changes a batch that was
\* passed to storeLogs or a cached snapshot, a submission with the text of
\* the batch's last entry included; a cached snapshot is passed to storeLogs
\* exactly as it was cached.
C37_BatchesAreFrozen ==
    [][last'.op \in {"relog", "reflush"} =>
        /\ ~last'.modified
        /\ live' = {}
        /\ KeptAsPrefix(stored, stored')
        /\ IF outputCache # <<>> /\ outputCache' = <<>>
           THEN /\ Len(stored') > Len(stored) + Len(outputCache)
                /\ SubSeq(stored', Len(stored) + 1,
                          Len(stored) + Len(outputCache)) = outputCache
           ELSE KeptAsPrefix(outputCache, outputCache')
    ]_vars

\* the queue holds a submission with the text of the last entry of a
\* snapshot that was cached before and is as it was
C37_Witness ==
    /\ last.op = "relog"
    /\ last.taken
    /\ Len(queue) = 1
    /\ outputCache # <<>>
    /\ LET b == outputCache[Len(outputCache)]
       IN b[Len(b)].text = queue[1].text

----------------------------------------------------------------------------
(* The calls of the transports *)

\* the transports of ts that have a function for level, in the order of ts
RECURSIVE Having(_, _)
Having(ts, level) ==
    IF ts = <<>> THEN <<>>
    ELSE (IF level \in MethodsOf[Head(ts)] THEN <<Head(ts)>> ELSE <<>>)
         \o Having(Tail(ts), level)

\* the last operation was a call of a logger that passed / did not pass the
\* logger's level
Passed(l) == l.op = "__log" /\ Rank(l.level) - 1 >= l.logger.level
Filtered(l) == l.op = "__log" /\ Rank(l.level) - 1 < l.logger.level

\* the transports called are, one call each and in this order, the global
\* transports and then the logger's own that have a function of the level's
\* name, called at that function, with the logged arguments at the end and
\* with the same arguments but for the first one
CalledInOrder(l) ==
    LET ts == Having(globalTransports \o l.logger.transports, l.level)
    IN /\ Len(l.calls) = Len(ts)
       /\ \A i \in 1..Len(ts) :
            /\ l.calls[i].transport = ts[i]
            /\ l.calls[i].method = l.level
            /\ Len(l.calls[i].args) >= Len(l.args)
            /\ SubSeq(l.calls[i].args,
                      Len(l.calls[i].args) - Len(l.args) + 1,
                      Len(l.calls[i].args)) = l.args
            /\ \A j \in 1..Len(ts) : Tail(l.calls[j].args) = Tail(l.calls[i].args)

\* what stands before the logged arguments in the i-th call
PrefixOf(l, i) == SubSeq(l.calls[i].args, 1, Len(l.calls[i].args) - Len(l.args))

HasId(l) == l.logger.id.t = "string" /\ l.logger.id.v # ""

\* the caller's name is shown: caller info is not disabled, by the logger's
\* options or the global ones, and the name has more than one character
ShowsCaller(l) ==
    /\ l.logger.options.disableCallerInfo # Bool(TRUE)
    /\ globalOptions.disableCallerInfo # Bool(TRUE)
    /\ Len(l.caller) > 1

\* C39 as stated: a call that passes the level calls the function of that
\* name of every global transport and then of every transport of the logger
\* that has one, once each and in order, with the arguments preceded by the
\* timestamp and, when the logger has one, its id, and by nothing else; a
\* call that does not pass calls no transport.
C39_PrefixIsTimestampAndId ==
    /\ Filtered(last) => last.calls = <<>>
    /\ Passed(last) =>
        /\ CalledInOrder(last)
        /\ \A i \in 1..Len(last.calls) :
            /\ Len(PrefixOf(last, i)) = IF HasId(last) THEN 2 ELSE 1
            /\ HasId(last) =>
                 PrefixOf(last, i)[2] = Str("[" \o last.logger.id.v \o "]")

\* C39 amended: the same, the arguments being preceded by the timestamp of
\* the call, then "[id]" when the logger has an id, then "<name>: " when
\* caller info is not disabled and the caller's name has more than one
\* character.
C39_PrefixIsTimestampIdAndCaller ==
    /\ Filtered(last) => last.calls = <<>>
    /\ Passed(last) =>
        /\ CalledInOrder(last)
        /\ \A i \in 1..Len(last.calls) :
            LET prefix == PrefixOf(last, i)
                n == Len(prefix)
            IN /\ n = 1 + (IF HasId(last) THEN 1 ELSE 0)
                        + (IF ShowsCaller(last) THEN 1 ELSE 0)
               /\ prefix[1] \in {Str(Times[k]) : k \in 1..Len(Times)}
               /\ HasId(last) =>
                    prefix[2] = Str("[" \o last.logger.id.v \o "]")
               /\ ShowsCaller(last) =>
                    prefix[n] = Str("<" \o last.caller \o ">: ")

\* a logger with the id "a" and the transports collector and other was
\* called at debug from fn, with the global transports console and other:
\* console and collector were called, other was not
C39_Witness ==
    /\ Passed(last)
    /\ last.level = "debug"
    /\ last.caller = "fn"
    /\ last.args # <<>>
    /\ globalTransports = <<"console", "other">>
    /\ Len(last.calls) = 2
    /\ last.calls[1].transport = "console"
    /\ last.calls[2].transport = "collector"
    /\ Len(last.calls[2].args) = 3 + Len(last.args)

====
